---- MODULE Spec2Model ----
(***************************************************************************)
(* The voice-chat SFU of src/user.go: participants (User) bound to a       *)
(* signaling channel and a media session, rooms, the offer/answer          *)
(* handlers, the on-remote-track renegotiation and the RTP fan-out.        *)
(*                                                                         *)
(* Every goroutine of the program is a task of the model; one step of the  *)
(* model is one task performing one call that touches shared state.        *)
(* Room (Join, Leave, GetUsers, GetOtherUsers) and Rooms.GetOrCreate are   *)
(* used by src/user.go but defined in no file under src/: they are         *)
(* modelled from sections 3 and 4.2-4.3 of the specification.              *)
(***************************************************************************)
EXTENDS Integers, Sequences, FiniteSets, TLC

\* ------------------------------------------------------------------ bounds
NUsers == 3        \* signaling connections accepted
NPair == 2         \* connections accepted under SpecNeg, SpecSig and SpecFan
MaxMsgs == 3       \* inbound signaling messages read, all participants
PairMsgs == 2      \* messages read under SpecNeg and SpecSig
MaxTracks == 2     \* on-remote-track events, all participants
MaxPkts == 2       \* RTP packets read, all participants
SendCap == 2       \* capacity of User.send (256 in serveWs)
RtpCap == 2        \* capacity of User.rtpCh (100 in serveWs)

Users == 1..NUsers
Pair == 1..NPair
SSRCs == 1..MaxTracks
NilTrack == 0

\* ------------------------------------------------------------ inputs
\* URL paths a client may open; a path is its sequence of characters.
Paths == { <<"/", "a">>, <<"/", "a", "/">>, <<"/", "b">> }

\* roomID := strings.ReplaceAll(r.URL.Path, "/", "")
RoomID(path) == SelectSeq(path, LAMBDA c : c # "/")

RoomIds == { RoomID(p) : p \in Paths }
NoRoom == << >>

\* The audio codecs webrtc.MediaEngine.PopulateFromSDP finds in an offer.
OpusCodec == [name |-> "OPUS", pt |-> 111]
PcmuCodec == [name |-> "PCMU", pt |-> 0]
NoCodecs == << >>

\* Inbound signaling messages (Event), by what HandleEvent tells apart:
\* the type, whether the payload field of that type is present, and for an
\* offer the audio codecs of its SDP.  "garbage" is a frame json.Unmarshal
\* rejects; "null" is the JSON text null, which json.Unmarshal accepts and
\* which leaves the *Event nil.
ClientMsgs ==
  { [type |-> "offer", present |-> TRUE, codecs |-> <<PcmuCodec, OpusCodec>>],
    [type |-> "offer", present |-> TRUE, codecs |-> <<PcmuCodec>>],
    [type |-> "offer", present |-> FALSE, codecs |-> NoCodecs],
    [type |-> "answer", present |-> TRUE, codecs |-> NoCodecs],
    [type |-> "answer", present |-> FALSE, codecs |-> NoCodecs],
    [type |-> "candidate", present |-> TRUE, codecs |-> NoCodecs],
    [type |-> "candidate", present |-> FALSE, codecs |-> NoCodecs],
    [type |-> "hangup", present |-> FALSE, codecs |-> NoCodecs],
    [type |-> "garbage", present |-> FALSE, codecs |-> NoCodecs],
    [type |-> "null", present |-> FALSE, codecs |-> NoCodecs] }

\* ---------------------------------------------------------------- state
VARIABLES
  alive,        \* the process runs (FALSE after a panic or log.Fatalf)
  conn,         \* User.conn: "none" (not accepted yet), "open", "closed"
  room,         \* User.room: the room identifier, NoRoom before serveWs
  members,      \* Room.users, per room identifier
  stop,         \* User.stop
  rp,           \* readPump's position
  wp,           \* writePump's position
  send,         \* User.send: the queue of outbound signaling messages
  handlers,     \* the goroutines readPump started, one per message read
  nMsgs,        \* messages read so far (a message's number is its task id)
  sigState,     \* pc: signaling state of the media session
  hasRemote,    \* pc: a remote description has been applied
  iceState,     \* pc: the last ICE connection state the callback was given
  candidates,   \* pc: the calls of AddICECandidate, each with the number of
                \* its message and whether the session took the candidate
  transceivers, \* pc: receive-only transceivers added
  pcTracks,     \* pc: local tracks added with pc.AddTrack
  inTrack,      \* User.inTrack: an SSRC, or NilTrack
  outTracks,    \* User.outTracks: its keys (each maps to the last track added)
  trackOf,      \* the remote tracks delivered so far: trackOf[ssrc] is the publisher
  ot,           \* the running OnTrack callbacks
  otDone,       \* the finished OnTrack callbacks, with the snapshot each took
  offerDone,    \* participants an offer of which passed its AddTrack loop
  readers,      \* the running receiveInTrackRTP goroutines
  nRead,        \* packets read so far per SSRC
  rtpCh,        \* User.rtpCh
  fwdIdle,      \* broadcastIncomingRTP goroutines waiting in ReadRTP
  fwdBusy,      \* broadcastIncomingRTP goroutines inside their fan-out loop
  delivered,    \* per participant, the packets written to its outbound tracks
  ignoredErr,   \* participants a media-session error of which was dropped
  count,        \* the package variable count
  sw,           \* serveWs, per connection: its position and the value of
                \* count it loaded for count++
  ID,           \* User.ID, 0 before the User is created
  created       \* the participants in the order their User was created

vars == <<alive, conn, room, members, stop, rp, wp, send, handlers, nMsgs,
          sigState, hasRemote, iceState, transceivers, pcTracks, inTrack,
          outTracks, trackOf, ot, otDone, offerDone, readers, nRead, rtpCh,
          fwdIdle, fwdBusy, delivered, ignoredErr, count, sw, ID, created,
          candidates>>

sigVars == <<send, handlers, nMsgs>>
pcVars == <<sigState, hasRemote, iceState, transceivers, pcTracks>>
trackVars == <<inTrack, outTracks, trackOf, ot, otDone, offerDone>>
rtpVars == <<readers, nRead, rtpCh, fwdIdle, fwdBusy, delivered>>
errVars == <<ignoredErr>>
idVars == <<count, sw, ID, created>>
connVars == <<conn, room, members, stop, rp, wp, idVars>>

\* ------------------------------------------------------------------ Room
\* Room.Join: add p under the room's exclusive lock.
Join(m, r, u) == [m EXCEPT ![r] = @ \cup {u}]

\* Room.Leave: remove p; leaving twice is a no-op.
Leave(m, r, u) == [m EXCEPT ![r] = @ \ {u}]

\* Room.GetUsers: a snapshot of the current members.
GetUsers(r) == members[r]

\* Room.GetOtherUsers: a snapshot of the current members without u.
GetOtherUsers(r, u) == members[r] \ {u}

\* Rooms.GetOrCreate: the room of an identifier, created on first use; two
\* calls for one identifier yield the same room.
GetOrCreate(id) == id

\* ------------------------------------------------------------- signaling
ErrMsg(desc) == [type |-> "error", ok |-> TRUE, desc |-> desc]
OfferMsg(ok) == [type |-> "offer", ok |-> ok, desc |-> ""]
AnswerMsg == [type |-> "answer", ok |-> TRUE, desc |-> ""]

ErrOpus == "remote peer does not support opus codec"
ErrPC == "media session error"

\* SendJSON: u.send <- json blocks while the queue is full.
CanSend(u) == Len(send[u]) < SendCap
SendJSON(u, msg) == [send EXCEPT ![u] = Append(@, msg)]

\* SendErr: the error is enqueued on u.send as an "error" event.
SendErr(u, desc) == SendJSON(u, ErrMsg(desc))

Init ==
  /\ alive = TRUE
  /\ conn = [u \in Users |-> "none"]
  /\ room = [u \in Users |-> NoRoom]
  /\ members = [r \in RoomIds |-> {}]
  /\ stop = [u \in Users |-> FALSE]
  /\ rp = [u \in Users |-> "none"]
  /\ wp = [u \in Users |-> "none"]
  /\ send = [u \in Users |-> << >>]
  /\ handlers = {}
  /\ nMsgs = 0
  /\ sigState = [u \in Users |-> "stable"]
  /\ hasRemote = [u \in Users |-> FALSE]
  /\ iceState = [u \in Users |-> "new"]
  /\ candidates = [u \in Users |-> {}]
  /\ transceivers = [u \in Users |-> 0]
  /\ pcTracks = [u \in Users |-> 0]
  /\ inTrack = [u \in Users |-> NilTrack]
  /\ outTracks = [u \in Users |-> {}]
  /\ trackOf = << >>
  /\ ot = {}
  /\ otDone = {}
  /\ offerDone = {}
  /\ readers = {}
  /\ nRead = [s \in SSRCs |-> 0]
  /\ rtpCh = [u \in Users |-> << >>]
  /\ fwdIdle = [u \in Users |-> 0]
  /\ fwdBusy = {}
  /\ delivered = [u \in Users |-> << >>]
  /\ ignoredErr = {}
  /\ count = 0
  /\ sw = [u \in Users |-> [pc |-> "none", tmp |-> 0]]
  /\ ID = [u \in Users |-> 0]
  /\ created = << >>

\* ---------------------------------------------------------------- serveWs
\* serveWs runs on the goroutine of its HTTP request.  count++ is a load and
\* a store of the package variable, under no lock: serveWsLoad is the load.
\* (Connection u is the u-th to enter serveWs.)
serveWsLoad(u) ==
  /\ alive
  /\ sw[u].pc = "none"
  /\ \A v \in Users : v < u => sw[v].pc # "none"
  /\ sw' = [sw EXCEPT ![u] = [pc |-> "loaded", tmp |-> count]]
  /\ UNCHANGED <<alive, candidates, conn, room, members, stop, rp, wp, count,
                 ID, created, sigVars, pcVars, trackVars, rtpVars, errVars>>

\* count++, the store.
serveWsStore(u) ==
  /\ alive
  /\ sw[u].pc = "loaded"
  /\ count' = sw[u].tmp + 1
  /\ sw' = [sw EXCEPT ![u].pc = "stored"]
  /\ UNCHANGED <<alive, candidates, conn, room, members, stop, rp, wp, ID,
                 created, sigVars, pcVars, trackVars, rtpVars, errVars>>

\* The rest of serveWs: the User is created with ID: count (count is read
\* again), it joins the room of the path, and writePump and readPump start.
serveWsCreate(u, path) ==
  /\ alive
  /\ sw[u].pc = "stored"
  /\ ID' = [ID EXCEPT ![u] = count]
  /\ created' = Append(created, u)
  /\ sw' = [sw EXCEPT ![u].pc = "done"]
  /\ LET r == GetOrCreate(RoomID(path)) IN
       /\ room' = [room EXCEPT ![u] = r]
       /\ members' = Join(members, r, u)
  /\ conn' = [conn EXCEPT ![u] = "open"]
  /\ rp' = [rp EXCEPT ![u] = "read"]
  /\ wp' = [wp EXCEPT ![u] = "run"]
  /\ UNCHANGED <<alive, candidates, stop, count, sigVars, pcVars, trackVars,
                 rtpVars, errVars>>

\* serveWs run from its entry to its end with no step of another connection's
\* serveWs in between: upgrade the connection, take the room of the path,
\* create the User (count++ gives the identifier), join the room and start
\* writePump and readPump.
serveWs(u, path) ==
  /\ alive
  /\ conn[u] = "none"
  /\ sw[u].pc = "none"
  /\ \A v \in Users : v < u => conn[v] # "none"
  /\ count' = count + 1
  /\ ID' = [ID EXCEPT ![u] = count + 1]
  /\ created' = Append(created, u)
  /\ sw' = [sw EXCEPT ![u] = [pc |-> "done", tmp |-> count]]
  /\ LET r == GetOrCreate(RoomID(path)) IN
       /\ room' = [room EXCEPT ![u] = r]
       /\ members' = Join(members, r, u)
  /\ conn' = [conn EXCEPT ![u] = "open"]
  /\ rp' = [rp EXCEPT ![u] = "read"]
  /\ wp' = [wp EXCEPT ![u] = "run"]
  /\ UNCHANGED <<alive, candidates, stop, sigVars, pcVars, trackVars, rtpVars,
                 errVars>>

\* --------------------------------------------------------------- readPump
\* A handler task as readPump starts it: go func() { u.HandleEvent(message) }.
NewHandler(u, msg, id) ==
  [id |-> id, user |-> u, msg |-> msg, pc |-> "start", tracks |-> {},
   todo |-> {}]

\* A readPump that runs the handler itself: it reads the next message only
\* once the handlers of the participant's earlier messages have ended.
readPumpReadWait(u, msg) ==
  /\ alive
  /\ rp[u] = "read"
  /\ conn[u] = "open"
  /\ nMsgs < MaxMsgs
  /\ \A t \in handlers : t.user # u
  /\ nMsgs' = nMsgs + 1
  /\ handlers' = handlers \cup {NewHandler(u, msg, nMsgs + 1)}
  /\ UNCHANGED <<alive, candidates, connVars, send, pcVars, trackVars, rtpVars,
                 errVars>>

\* readPump, one round of its loop: ReadMessage returns a message and the
\* handler goroutine is started; the reader does not wait for it.
readPumpRead(u, msg) ==
  /\ alive
  /\ rp[u] = "read"
  /\ conn[u] = "open"
  /\ nMsgs < MaxMsgs
  /\ nMsgs' = nMsgs + 1
  /\ handlers' = handlers \cup {NewHandler(u, msg, nMsgs + 1)}
  /\ UNCHANGED <<alive, candidates, connVars, send, pcVars, trackVars,
                 rtpVars, errVars>>

\* readPump: ReadMessage fails (the peer closed, the read deadline expired,
\* the message is larger than maxMessageSize, or the connection was closed
\* by writePump): the loop breaks and the deferred function runs:
\* u.stop = true, and in a second step u.room.Leave(u); u.conn.Close().
readPumpStop(u) ==
  /\ alive
  /\ rp[u] = "read"
  /\ stop' = [stop EXCEPT ![u] = TRUE]
  /\ rp' = [rp EXCEPT ![u] = "leave"]
  /\ UNCHANGED <<alive, candidates, conn, room, members, wp, idVars, sigVars,
                 pcVars, trackVars, rtpVars, errVars>>

readPumpLeave(u) ==
  /\ alive
  /\ rp[u] = "leave"
  /\ members' = Leave(members, room[u], u)
  /\ conn' = [conn EXCEPT ![u] = "closed"]
  /\ rp' = [rp EXCEPT ![u] = "done"]
  /\ UNCHANGED <<alive, candidates, room, stop, wp, idVars, sigVars, pcVars,
                 trackVars, rtpVars, errVars>>

\* -------------------------------------------------------------- writePump
\* writePump: a message is taken from u.send and written to the connection.
writePumpWrite(u) ==
  /\ alive
  /\ wp[u] = "run"
  /\ conn[u] = "open"
  /\ send[u] # << >>
  /\ send' = [send EXCEPT ![u] = Tail(@)]
  /\ UNCHANGED <<alive, candidates, connVars, handlers, nMsgs, pcVars,
                 trackVars, rtpVars, errVars>>

\* writePump: NextWriter, w.Close or the ping's WriteMessage fails (always so
\* once the connection is closed); the task returns and its deferred
\* function closes the connection.  A message taken from the queue for the
\* failed write is lost.
writePumpExit(u) ==
  /\ alive
  /\ wp[u] = "run"
  /\ \/ send' = send
     \/ /\ send[u] # << >>
        /\ send' = [send EXCEPT ![u] = Tail(@)]
  /\ wp' = [wp EXCEPT ![u] = "done"]
  /\ conn' = [conn EXCEPT ![u] = "closed"]
  /\ UNCHANGED <<alive, candidates, room, members, stop, rp, idVars, handlers,
                 nMsgs, pcVars, trackVars, rtpVars, errVars>>

\* ------------------------------------------------------- the media session
\* The peer connection is the external framework: each operation either
\* succeeds, moving the signaling state as below, or returns an error and
\* leaves the session as it was.  An operation the signaling state does not
\* allow returns an error.
CanSetRemoteOffer(u) == sigState[u] \in {"stable", "have-remote-offer"}
CanSetRemoteAnswer(u) == sigState[u] = "have-local-offer"
CanAnswer(u) == hasRemote[u] /\ sigState[u] = "have-remote-offer"
CanOffer(u) == sigState[u] \in {"stable", "have-local-offer"}

\* ------------------------------------------------------------ HandleEvent
Min(S) == CHOOSE x \in S : \A y \in S : x <= y

\* A codec check that accepts every offer.
supportAny(codecs) == TRUE

\* supportOpus: payloadType is that of the first audio codec named OPUS, 0
\* when there is none; the offer is supported iff payloadType is not 0.
supportOpus(codecs) ==
  LET idx == { i \in DOMAIN codecs : codecs[i].name = "OPUS" }
      payloadType == IF idx = {} THEN 0 ELSE codecs[Min(idx)].pt
  IN payloadType # 0

\* A GetRoomTracks that finds no track.
NoRoomTracks(u) == {}

\* GetRoomTracks: the inbound tracks of the room's users (u.room.GetUsers(),
\* the user itself included) that are not nil.
GetRoomTracks(u) ==
  { inTrack[v] : v \in { w \in GetUsers(room[u]) : inTrack[w] # NilTrack } }

\* What HandleEvent answers without touching the media session: the error of
\* json.Unmarshal, an offer, answer or candidate without its payload, an
\* unknown type.  "" when the event goes on to the media session.
ProtocolError(msg) ==
  CASE msg.type = "garbage" -> "invalid character"
    [] msg.type = "offer" /\ ~msg.present -> "empty offer"
    [] msg.type = "answer" /\ ~msg.present -> "empty answer"
    [] msg.type = "candidate" /\ ~msg.present -> "empty candidate"
    [] msg.type \notin {"offer", "answer", "candidate", "garbage", "null"}
         -> "not implemented"
    [] OTHER -> ""

Goto(t, pc) == [t EXCEPT !.pc = pc]
Replace(t, t2) == (handlers \ {t}) \cup {t2}

\* A handler ends with an error that reaches SendErr (inside HandleEvent, or
\* in the goroutine for an error HandleEvent returns): the "error" event is
\* enqueued and the task is over.
Reject(t, desc) ==
  /\ CanSend(t.user)
  /\ send' = SendErr(t.user, desc)
  /\ handlers' = handlers \ {t}

\* A media-session operation of a handler returned an error, which the handler
\* returns: it reaches SendErr in the goroutine.
RejectPC(t) == Reject(t, ErrPC)

\* A media-session operation on u's session returned an error that the caller
\* drops (or panics on): no "error" event is sent for it.
Ignored(u) == ignoredErr \cup {u}

\* HandleEvent on a message it answers with an error itself.
HandleEventReject(t) ==
  /\ alive
  /\ t.pc = "start"
  /\ ProtocolError(t.msg) # ""
  /\ Reject(t, ProtocolError(t.msg))
  /\ UNCHANGED <<alive, candidates, connVars, nMsgs, pcVars, trackVars,
                 rtpVars, errVars>>

\* HandleEvent on the JSON text null: json.Unmarshal returns no error and
\* leaves event nil; event.Type dereferences the nil pointer and the
\* goroutine panics, which ends the process.
HandleEventNil(t) ==
  /\ alive
  /\ t.pc = "start"
  /\ t.msg.type = "null"
  /\ alive' = FALSE
  /\ handlers' = Replace(t, Goto(t, "panic"))
  /\ UNCHANGED <<candidates, connVars, send, nMsgs, pcVars, trackVars,
                 rtpVars, errVars>>

\* HandleEvent, type "answer": u.pc.SetRemoteDescription(*event.Answer); the
\* error it returns is dropped and HandleEvent returns nil.
HandleAnswer(t) ==
  /\ alive
  /\ t.pc = "start"
  /\ t.msg.type = "answer" /\ t.msg.present
  /\ \/ /\ CanSetRemoteAnswer(t.user)
        /\ sigState' = [sigState EXCEPT ![t.user] = "stable"]
        /\ hasRemote' = [hasRemote EXCEPT ![t.user] = TRUE]
        /\ UNCHANGED ignoredErr
     \/ /\ ignoredErr' = Ignored(t.user)
        /\ UNCHANGED <<sigState, hasRemote>>
  /\ handlers' = handlers \ {t}
  /\ UNCHANGED <<alive, candidates, connVars, send, nMsgs, iceState,
                 transceivers, pcTracks, trackVars, rtpVars>>

\* HandleEvent, type "candidate": u.pc.AddICECandidate(*event.Candidate); the
\* error it returns (there is no remote description yet, or the candidate is
\* refused) is dropped and HandleEvent returns nil.
HandleCandidate(t) ==
  /\ alive
  /\ t.pc = "start"
  /\ t.msg.type = "candidate" /\ t.msg.present
  /\ \/ /\ hasRemote[t.user]
        /\ candidates' = [candidates EXCEPT ![t.user] =
                            @ \cup {[id |-> t.id, ok |-> TRUE]}]
        /\ UNCHANGED ignoredErr
     \/ /\ ignoredErr' = Ignored(t.user)
        /\ candidates' = [candidates EXCEPT ![t.user] =
                            @ \cup {[id |-> t.id, ok |-> FALSE]}]
  /\ handlers' = handlers \ {t}
  /\ UNCHANGED <<alive, connVars, send, nMsgs, pcVars, trackVars, rtpVars>>

\* HandleOffer on an offer supportOpus refuses: the error is returned at once.
HandleOfferReject(t) ==
  /\ alive
  /\ t.pc = "start"
  /\ t.msg.type = "offer" /\ t.msg.present
  /\ ~supportOpus(t.msg.codecs)
  /\ Reject(t, ErrOpus)
  /\ UNCHANGED <<alive, candidates, connVars, nMsgs, pcVars, trackVars,
                 rtpVars, errVars>>

\* HandleOffer on an offer it accepts, up to its loop: GetRoomTracks, and with
\* no track to attach a receive-only audio transceiver.
HandleOffer(t) ==
  /\ alive
  /\ t.pc = "start"
  /\ t.msg.type = "offer" /\ t.msg.present
  /\ supportOpus(t.msg.codecs)
  /\ IF GetRoomTracks(t.user) # {}
       THEN /\ handlers' = Replace(t, [t EXCEPT !.pc = "add",
                                                !.tracks = GetRoomTracks(t.user),
                                                !.todo = GetRoomTracks(t.user)])
            /\ UNCHANGED <<send, transceivers, offerDone, errVars>>
       ELSE \/ /\ transceivers' = [transceivers EXCEPT ![t.user] = @ + 1]
               /\ handlers' = Replace(t, Goto(t, "remote"))
               /\ offerDone' = offerDone \cup {t.user}
               /\ UNCHANGED <<send, errVars>>
            \/ /\ RejectPC(t)
               /\ UNCHANGED <<transceivers, offerDone, errVars>>
  /\ UNCHANGED <<alive, candidates, connVars, nMsgs, sigState, hasRemote,
                 iceState, pcTracks, inTrack, outTracks, trackOf, ot, otDone,
                 rtpVars>>

\* AddTrack without the insert into outTracks (user.go 414-416 left out).
AddTrackNoInsert(u, ssrc) == outTracks

\* AddTrack: a new local track of the SSRC is added to the media session and
\* stored in outTracks under its SSRC, replacing what the key held.
AddTrackOut(u, ssrc) == [outTracks EXCEPT ![u] = @ \cup {ssrc}]
AddTrackPc(u) == [pcTracks EXCEPT ![u] = @ + 1]

\* HandleOffer's loop over the tracks: AddTrack, and panic when it fails.
HandleOfferAddTrack(t, ssrc) ==
  /\ alive
  /\ t.pc = "add"
  /\ ssrc \in t.todo
  /\ \/ /\ outTracks' = AddTrackOut(t.user, ssrc)
        /\ pcTracks' = AddTrackPc(t.user)
        /\ handlers' = Replace(t,
             IF t.todo = {ssrc} THEN [t EXCEPT !.pc = "remote", !.todo = {}]
             ELSE [t EXCEPT !.todo = @ \ {ssrc}])
        /\ offerDone' = IF t.todo = {ssrc} THEN offerDone \cup {t.user}
                        ELSE offerDone
        /\ UNCHANGED <<alive, ignoredErr>>
     \/ /\ alive' = FALSE
        /\ ignoredErr' = Ignored(t.user)
        /\ UNCHANGED <<outTracks, pcTracks, handlers, offerDone>>
  /\ UNCHANGED <<candidates, connVars, send, nMsgs, sigState, hasRemote,
                 iceState, transceivers, inTrack, trackOf, ot, otDone,
                 rtpVars>>

\* HandleOffer: u.pc.SetRemoteDescription(offer); its error is returned.
HandleOfferSetRemote(t) ==
  /\ alive
  /\ t.pc = "remote"
  /\ \/ /\ CanSetRemoteOffer(t.user)
        /\ sigState' = [sigState EXCEPT ![t.user] = "have-remote-offer"]
        /\ hasRemote' = [hasRemote EXCEPT ![t.user] = TRUE]
        /\ handlers' = Replace(t, Goto(t, "answer"))
        /\ UNCHANGED <<send, errVars>>
     \/ /\ RejectPC(t)
        /\ UNCHANGED <<sigState, hasRemote, errVars>>
  /\ UNCHANGED <<alive, candidates, connVars, nMsgs, iceState, transceivers,
                 pcTracks, trackVars, rtpVars>>

\* SendAnswer, first half: Answer() is CreateAnswer then SetLocalDescription;
\* the error of either is returned.
HandleOfferAnswer(t) ==
  /\ alive
  /\ t.pc = "answer"
  /\ \/ /\ CanAnswer(t.user)
        /\ sigState' = [sigState EXCEPT ![t.user] = "stable"]
        /\ handlers' = Replace(t, Goto(t, "sendanswer"))
        /\ UNCHANGED <<send, errVars>>
     \/ /\ RejectPC(t)
        /\ UNCHANGED <<sigState, errVars>>
  /\ UNCHANGED <<alive, candidates, connVars, nMsgs, hasRemote, iceState,
                 transceivers, pcTracks, trackVars, rtpVars>>

\* SendAnswer, second half: the answer is enqueued on u.send.
HandleOfferSendAnswer(t) ==
  /\ alive
  /\ t.pc = "sendanswer"
  /\ CanSend(t.user)
  /\ send' = SendJSON(t.user, AnswerMsg)
  /\ handlers' = handlers \ {t}
  /\ UNCHANGED <<alive, candidates, connVars, nMsgs, pcVars, trackVars,
                 rtpVars, errVars>>

\* ------------------------------------------------ media-session callbacks
\* OnICEConnectionStateChange: the callback logs the state and the member
\* count (len(user.room.GetUsers())) and changes nothing.  The states are
\* those the framework reports for a session nobody closes: "closed" follows
\* pc.Close(), which src/user.go never calls.
ICENext(s) ==
  CASE s = "new" -> {"connected"}
    [] s = "connected" -> {"disconnected"}
    [] s = "disconnected" -> {"connected", "failed"}
    [] OTHER -> {}

OnICEConnectionStateChange(u, s) ==
  /\ alive
  /\ conn[u] # "none"
  /\ s \in ICENext(iceState[u])
  /\ s = "connected" /\ iceState[u] = "new" => hasRemote[u]
  /\ iceState' = [iceState EXCEPT ![u] = s]
  /\ UNCHANGED <<alive, candidates, connVars, sigVars, sigState, hasRemote,
                 transceivers, pcTracks, trackVars, rtpVars, errVars>>

\* A fan-out over GetUsers, the publisher included, in place of GetOtherUsers.
AllUsers(u) == GetUsers(room[u])

\* The participants the OnTrack callback provisions and the forwarder fans
\* out to: user.room.GetOtherUsers(user).
OtherUsers(u) == GetOtherUsers(room[u], u)

\* OnTrack, its first statement: the framework delivers a remote track of a
\* negotiated session (its SSRC is fresh: the next number) and the callback
\* stores it in user.inTrack.
OnTrack(u) ==
  /\ alive
  /\ hasRemote[u]
  /\ Len(trackOf) < MaxTracks
  /\ LET ssrc == Len(trackOf) + 1 IN
       /\ trackOf' = Append(trackOf, u)
       /\ inTrack' = [inTrack EXCEPT ![u] = ssrc]
       /\ ot' = ot \cup {[user |-> u, ssrc |-> ssrc, pc |-> "snap", snap |-> {},
                          todo |-> {}, cur |-> 0, ok |-> TRUE]}
  /\ UNCHANGED <<alive, candidates, connVars, sigVars, pcVars, outTracks,
                 otDone, offerDone, rtpVars, errVars>>

OtNext(t, todo) == IF todo = {} THEN "spawn" ELSE "add"

\* OnTrack: the snapshot its loop ranges over.
OnTrackSnapshot(t) ==
  /\ alive
  /\ t.pc = "snap"
  /\ LET others == OtherUsers(t.user) IN
       ot' = (ot \ {t}) \cup {[t EXCEPT !.snap = others, !.todo = others,
                                        !.pc = OtNext(t, others)]}
  /\ UNCHANGED <<alive, candidates, connVars, sigVars, pcVars, inTrack,
                 outTracks, trackOf, otDone, offerDone, rtpVars, errVars>>

\* OnTrack's loop: roomUser.AddTrack(remoteTrack.SSRC()), panic on error.
OnTrackAddTrack(t, v) ==
  /\ alive
  /\ t.pc = "add"
  /\ v \in t.todo
  /\ \/ /\ outTracks' = AddTrackOut(v, t.ssrc)
        /\ pcTracks' = AddTrackPc(v)
        /\ ot' = (ot \ {t}) \cup {[t EXCEPT !.pc = "offer", !.cur = v,
                                            !.todo = @ \ {v}]}
        /\ UNCHANGED <<alive, ignoredErr>>
     \/ /\ alive' = FALSE
        /\ ignoredErr' = Ignored(v)
        /\ UNCHANGED <<outTracks, pcTracks, ot>>
  /\ UNCHANGED <<candidates, connVars, sigVars, sigState, hasRemote, iceState,
                 transceivers, inTrack, trackOf, otDone, offerDone, rtpVars>>

\* SendOffer, first half: offer, err := u.Offer() is CreateOffer then
\* SetLocalDescription; on an error Offer returns an empty description, and
\* SendOffer overwrites err: the empty offer is what it goes on to send.
OnTrackOffer(t) ==
  /\ alive
  /\ t.pc = "offer"
  /\ \/ /\ CanOffer(t.cur)
        /\ sigState' = [sigState EXCEPT ![t.cur] = "have-local-offer"]
        /\ ot' = (ot \ {t}) \cup {[t EXCEPT !.pc = "send", !.ok = TRUE]}
        /\ UNCHANGED ignoredErr
     \/ /\ ignoredErr' = Ignored(t.cur)
        /\ ot' = (ot \ {t}) \cup {[t EXCEPT !.pc = "send", !.ok = FALSE]}
        /\ UNCHANGED sigState
  /\ UNCHANGED <<alive, candidates, connVars, sigVars, hasRemote, iceState,
                 transceivers, pcTracks, inTrack, outTracks, trackOf, otDone,
                 offerDone, rtpVars>>

\* SendOffer, second half: the offer is enqueued on the peer's u.send.
OnTrackSendOffer(t) ==
  /\ alive
  /\ t.pc = "send"
  /\ CanSend(t.cur)
  /\ send' = SendJSON(t.cur, OfferMsg(t.ok))
  /\ ot' = (ot \ {t}) \cup {[t EXCEPT !.pc = OtNext(t, t.todo)]}
  /\ UNCHANGED <<alive, candidates, connVars, handlers, nMsgs, pcVars,
                 inTrack, outTracks, trackOf, otDone, offerDone, rtpVars,
                 errVars>>

\* OnTrack's end: go user.receiveInTrackRTP(remoteTrack) and
\* go user.broadcastIncomingRTP().
OnTrackSpawn(t) ==
  /\ alive
  /\ t.pc = "spawn"
  /\ readers' = readers \cup {[user |-> t.user, ssrc |-> t.ssrc]}
  /\ fwdIdle' = [fwdIdle EXCEPT ![t.user] = @ + 1]
  /\ ot' = ot \ {t}
  /\ otDone' = otDone \cup {[user |-> t.user, ssrc |-> t.ssrc, snap |-> t.snap]}
  /\ UNCHANGED <<alive, candidates, connVars, sigVars, pcVars, inTrack,
                 outTracks, trackOf, offerDone, nRead, rtpCh, fwdBusy,
                 delivered, errVars>>

\* ---------------------------------------------------------------- fan-out
RECURSIVE SumRead(_)
SumRead(S) == IF S = {} THEN 0
              ELSE LET s == CHOOSE x \in S : TRUE IN nRead[s] + SumRead(S \ {s})

\* receiveInTrackRTP, one round: remoteTrack.ReadRTP() returns a packet,
\* which is enqueued on u.rtpCh (the send blocks while the queue is full).
receiveInTrackRTP(rd) ==
  /\ alive
  /\ SumRead(SSRCs) < MaxPkts
  /\ Len(rtpCh[rd.user]) < RtpCap
  /\ nRead' = [nRead EXCEPT ![rd.ssrc] = @ + 1]
  /\ rtpCh' = [rtpCh EXCEPT ![rd.user] =
                 Append(@, [ssrc |-> rd.ssrc, seq |-> nRead[rd.ssrc] + 1])]
  /\ UNCHANGED <<alive, candidates, connVars, sigVars, pcVars, trackVars,
                 readers, fwdIdle, fwdBusy, delivered, errVars>>

\* receiveInTrackRTP: ReadRTP returns io.EOF and the task returns.
receiveInTrackEOF(rd) ==
  /\ alive
  /\ readers' = readers \ {rd}
  /\ UNCHANGED <<alive, candidates, connVars, sigVars, pcVars, trackVars,
                 nRead, rtpCh, fwdIdle, fwdBusy, delivered, errVars>>

\* receiveInTrackRTP: ReadRTP returns another error: log.Fatalf ends the
\* process.
receiveInTrackFatal(rd) ==
  /\ alive
  /\ alive' = FALSE
  /\ UNCHANGED <<candidates, connVars, sigVars, pcVars, trackVars, rtpVars,
                 errVars>>

\* broadcastIncomingRTP, the head of a round: ReadRTP takes a packet from
\* u.rtpCh and the loop ranges over u.room.GetOtherUsers(u).
broadcastIncomingRTP(u) ==
  /\ alive
  /\ fwdIdle[u] > 0
  /\ rtpCh[u] # << >>
  /\ rtpCh' = [rtpCh EXCEPT ![u] = Tail(@)]
  /\ IF OtherUsers(u) = {}
       THEN UNCHANGED <<fwdIdle, fwdBusy>>
       ELSE /\ fwdIdle' = [fwdIdle EXCEPT ![u] = @ - 1]
            /\ fwdBusy' = fwdBusy \cup {[user |-> u, pkt |-> Head(rtpCh[u]),
                                         snap |-> OtherUsers(u),
                                         todo |-> OtherUsers(u)]}
  /\ UNCHANGED <<alive, candidates, connVars, sigVars, pcVars, trackVars,
                 readers, nRead, delivered, errVars>>

\* A forwarder that gives up the rest of its snapshot after a subscriber.
WrittenBreak(f, v) == fwdBusy \ {f}

\* What the forwarder is left with once it has called WriteRTP on v.
Written(f, v) ==
  IF f.todo = {v} THEN fwdBusy \ {f}
  ELSE (fwdBusy \ {f}) \cup {[f EXCEPT !.todo = @ \ {v}]}

\* broadcastIncomingRTP, one subscriber: user.WriteRTP(rtp).  The packet goes
\* to the track outTracks holds under the packet's SSRC; without one
\* (errInvalidTrack), or when track.WriteRTP fails, the error is printed and
\* the loop goes on.
WriteRTP(f, v) ==
  /\ alive
  /\ v \in f.todo
  /\ \/ /\ f.pkt.ssrc \in outTracks[v]
        /\ delivered' = [delivered EXCEPT ![v] = Append(@, f.pkt)]
     \/ UNCHANGED delivered
  /\ fwdBusy' = Written(f, v)
  /\ fwdIdle' = IF f.todo = {v} THEN [fwdIdle EXCEPT ![f.user] = @ + 1]
                ELSE fwdIdle
  /\ UNCHANGED <<alive, candidates, connVars, sigVars, pcVars, trackVars,
                 readers, nRead, rtpCh, errVars>>

\* ------------------------------------------------------------------- Next
Connect == \E u \in Users, p \in Paths : serveWs(u, p)

\* The first NPair connections.
ConnectPair == \E u \in Pair, p \in Paths : serveWs(u, p)

\* Connections to one room.
ConnectRoom == \E u \in Users : serveWs(u, <<"/", "a">>)

\* serveWs, statement by statement, on concurrent requests.
Accept ==
  \/ \E u \in Users : serveWsLoad(u)
  \/ \E u \in Users : serveWsStore(u)
  \/ \E u \in Users, p \in Paths : serveWsCreate(u, p)

Teardown ==
  \/ \E u \in Users : readPumpStop(u)
  \/ \E u \in Users : readPumpLeave(u)

Writer ==
  \/ \E u \in Users : writePumpWrite(u)
  \/ \E u \in Users : writePumpExit(u)

Offers ==
  \/ \E t \in handlers : HandleOfferReject(t)
  \/ \E t \in handlers : HandleOffer(t)
  \/ \E t \in handlers, s \in SSRCs : HandleOfferAddTrack(t, s)
  \/ \E t \in handlers : HandleOfferSetRemote(t)
  \/ \E t \in handlers : HandleOfferAnswer(t)
  \/ \E t \in handlers : HandleOfferSendAnswer(t)

Answers == \E t \in handlers : HandleAnswer(t)

Events ==
  \/ \E t \in handlers : HandleEventReject(t)
  \/ \E t \in handlers : HandleEventNil(t)
  \/ \E t \in handlers : HandleCandidate(t)

Publish ==
  \/ \E u \in Users : OnTrack(u)
  \/ \E t \in ot : OnTrackSnapshot(t)
  \/ \E t \in ot, v \in Users : OnTrackAddTrack(t, v)
  \/ \E t \in ot : OnTrackOffer(t)
  \/ \E t \in ot : OnTrackSendOffer(t)
  \/ \E t \in ot : OnTrackSpawn(t)

FanOut ==
  \/ \E rd \in readers : receiveInTrackRTP(rd)
  \/ \E rd \in readers : receiveInTrackEOF(rd)
  \/ \E rd \in readers : receiveInTrackFatal(rd)
  \/ \E u \in Users : broadcastIncomingRTP(u)
  \/ \E f \in fwdBusy, v \in Users : WriteRTP(f, v)

ICE == \E u \in Users, s \in {"connected", "disconnected", "failed"} :
         OnICEConnectionStateChange(u, s)

\* The program: every task of every participant.
Next ==
  \/ Connect
  \/ Accept
  \/ \E u \in Users, m \in ClientMsgs : readPumpRead(u, m)
  \/ Teardown
  \/ Writer
  \/ Offers
  \/ Answers
  \/ Events
  \/ Publish
  \/ FanOut
  \/ ICE

Spec == Init /\ [][Next]_vars

(***************************************************************************)
(* The claims are checked under parts of the program, each the             *)
(* disjunction of the tasks that can change what its claims read; within   *)
(* the bounds above, the whole of Next has more states than a check can    *)
(* visit.                                                                  *)
(*   SpecNeg: negotiation and subscription.  Clients send offers and       *)
(*     answers; tracks are published; participants are torn down.  No RTP  *)
(*     packet is read and the writer does not drain the send queues.       *)
(*   SpecSig: signaling.  Clients send every kind of message, the writer   *)
(*     runs, ICE states change, participants are torn down.  No track is   *)
(*     published.                                                          *)
(*   SpecFan: fan-out.  One Opus offer is negotiated, tracks are           *)
(*     published, packets are read and forwarded, participants are torn    *)
(*     down.                                                               *)
(*   SpecIds: concurrent connections.  serveWs runs statement by           *)
(*     statement on concurrent requests, clients send malformed frames,    *)
(*     participants are torn down.                                         *)
(*   SpecDrop: fan-out to several subscribers.  Up to NUsers participants  *)
(*     connect to one room, one Opus offer is negotiated, tracks are       *)
(*     published, packets are read and forwarded; no participant is torn   *)
(*     down.                                                               *)
(*   SpecOrder: handlers of one channel.  Participants connect to one room *)
(*     and send Opus offers and candidates; participants are torn down.    *)
(*   SpecStall: renegotiation against the send queues.  Two participants   *)
(*     connect to one room and send one Opus offer and malformed frames,   *)
(*     the writer runs and exits, tracks are published, participants are   *)
(*     torn down.                                                          *)
(* In all but SpecIds a serveWs runs from entry to end with no other       *)
(* serveWs in between: nothing they check reads User.ID or count.          *)
(***************************************************************************)
NegMsgs == { m \in ClientMsgs : m.type \in {"offer", "answer"} /\ m.present }

NextNeg ==
  \/ ConnectPair
  \/ \E u \in Users, m \in NegMsgs : nMsgs < PairMsgs /\ readPumpRead(u, m)
  \/ Teardown
  \/ Offers
  \/ Answers
  \/ Publish

SpecNeg == Init /\ [][NextNeg]_vars

\* No track is published under SpecSig: GetRoomTracks is empty and no offer
\* reaches HandleOffer's AddTrack loop.
NextSig ==
  \/ ConnectPair
  \/ \E u \in Users, m \in ClientMsgs :
       nMsgs < PairMsgs /\ readPumpRead(u, m)
  \/ Teardown
  \/ Writer
  \/ \E t \in handlers : HandleOfferReject(t)
  \/ \E t \in handlers : HandleOffer(t)
  \/ \E t \in handlers : HandleOfferSetRemote(t)
  \/ \E t \in handlers : HandleOfferAnswer(t)
  \/ \E t \in handlers : HandleOfferSendAnswer(t)
  \/ Answers
  \/ Events
  \/ ICE

SpecSig == Init /\ [][NextSig]_vars

FanMsgs == 1       \* messages read under SpecFan
OpusOffers == { m \in ClientMsgs : m.type = "offer" /\ m.present
                                   /\ supportOpus(m.codecs) }

\* The one offer of SpecFan is handled before any track is published: it
\* finds no track to attach.
NextFan ==
  \/ ConnectPair
  \/ \E u \in Users, m \in OpusOffers : nMsgs < FanMsgs /\ readPumpRead(u, m)
  \/ Teardown
  \/ \E t \in handlers : HandleOffer(t)
  \/ \E t \in handlers : HandleOfferSetRemote(t)
  \/ \E t \in handlers : HandleOfferAnswer(t)
  \/ \E t \in handlers : HandleOfferSendAnswer(t)
  \/ Publish
  \/ FanOut

SpecFan == Init /\ [][NextFan]_vars

NextDrop ==
  \/ ConnectRoom
  \/ \E u \in Users, m \in OpusOffers : nMsgs < FanMsgs /\ readPumpRead(u, m)
  \/ \E t \in handlers : HandleOffer(t)
  \/ \E t \in handlers : HandleOfferSetRemote(t)
  \/ \E t \in handlers : HandleOfferAnswer(t)
  \/ \E t \in handlers : HandleOfferSendAnswer(t)
  \/ Publish
  \/ FanOut

SpecDrop == Init /\ [][NextDrop]_vars

OrderMsgs ==
  { m \in ClientMsgs :
      /\ m.present
      /\ \/ m.type = "candidate"
         \/ m.type = "offer" /\ supportOpus(m.codecs) }

NextOrder ==
  \/ ConnectRoom
  \/ \E u \in Users, m \in OrderMsgs : readPumpRead(u, m)
  \/ \E t \in handlers : HandleOffer(t)
  \/ \E t \in handlers : HandleOfferSetRemote(t)
  \/ \E t \in handlers : HandleOfferAnswer(t)
  \/ \E t \in handlers : HandleOfferSendAnswer(t)
  \/ \E t \in handlers : HandleCandidate(t)
  \/ Teardown

SpecOrder == Init /\ [][NextOrder]_vars

IdMsgs == { m \in ClientMsgs : m.type = "garbage" }

\* The one offer of SpecStall is the first message read: it is handled
\* before any track is published and finds no track to attach.
NextStall ==
  \/ \E u \in Pair : serveWs(u, <<"/", "a">>)
  \/ \E u \in Users, m \in OpusOffers : nMsgs < FanMsgs /\ readPumpRead(u, m)
  \/ \E u \in Users, m \in IdMsgs : readPumpRead(u, m)
  \/ \E t \in handlers : HandleEventReject(t)
  \/ \E t \in handlers : HandleOffer(t)
  \/ \E t \in handlers : HandleOfferSetRemote(t)
  \/ \E t \in handlers : HandleOfferAnswer(t)
  \/ \E t \in handlers : HandleOfferSendAnswer(t)
  \/ Publish
  \/ Writer
  \/ Teardown

SpecStall == Init /\ [][NextStall]_vars

NextIds ==
  \/ Accept
  \/ \E u \in Users, m \in IdMsgs : readPumpRead(u, m)
  \/ \E t \in handlers : HandleEventReject(t)
  \/ Teardown

SpecIds == Init /\ [][NextIds]_vars

\* ----------------------------------------------------------------- claims
\* a and b are different members of one room.
SameRoom(a, b) ==
  /\ a # b
  /\ conn[a] # "none" /\ conn[b] # "none"
  /\ room[a] = room[b]
  /\ {a, b} \subseteq members[room[a]]

\* C1 as claimed: for every two members A and B of one room, once an OnTrack
\* callback of A has finished, B's outTracks has an entry under the SSRC of
\* A's inbound track.
C1_Original ==
  \A rec \in otDone : \A b \in Users :
    SameRoom(rec.user, b) /\ inTrack[rec.user] = rec.ssrc
      => rec.ssrc \in outTracks[b]

\* C1, amended: once an OnTrack callback of A has finished, the SSRC of its
\* track is a key of B's outTracks for every B of the snapshot the callback
\* took, and for every B that is a member of A's room, with A's inbound track
\* still that track, once an offer of B has passed its AddTrack loop.
C1_Convergence ==
  \A rec \in otDone : \A b \in Users :
    /\ b \in rec.snap => rec.ssrc \in outTracks[b]
    /\ SameRoom(rec.user, b) /\ inTrack[rec.user] = rec.ssrc /\ b \in offerDone
         => rec.ssrc \in outTracks[b]

\* C1's case: B joined after A's callback took its snapshot, and B's own
\* offer gave it the entry.
C1_Witness ==
  \E rec \in otDone : \E b \in Users :
    /\ b \notin rec.snap
    /\ SameRoom(rec.user, b)
    /\ inTrack[rec.user] = rec.ssrc
    /\ b \in offerDone
    /\ rec.ssrc \in outTracks[b]

\* C2 as claimed: every key of a participant's outTracks is the SSRC of the
\* inbound track of another participant that is now a member of its room.
C2_Original ==
  \A b \in Users : \A k \in outTracks[b] :
    \E a \in Users : SameRoom(a, b) /\ inTrack[a] = k

\* The publisher of a packet.
Publisher(pkt) == trackOf[pkt.ssrc]

\* C3: a forwarder's fan-out ranges over other participants of the
\* publisher's own room only, a packet is written to an outbound track of
\* such a participant only, and every member of a room is a participant that
\* connected to that room.
C3_Isolation ==
  /\ \A f \in fwdBusy : \A v \in f.todo :
       v # f.user /\ room[v] = room[f.user]
  /\ \A b \in Users : \A i \in DOMAIN delivered[b] :
       Publisher(delivered[b][i]) # b /\ room[Publisher(delivered[b][i])] = room[b]
  /\ \A r \in RoomIds : \A u \in members[r] : room[u] = r

\* C3's case: a forwarder wrote a packet of its publisher to an outbound
\* track of another participant.
C3_Witness ==
  \E b \in Users : delivered[b] # << >>

\* C4 as claimed: the packets of one inbound track are written to a
\* subscriber in the order they were read.
C4_Original ==
  \A b \in Users : \A i, j \in DOMAIN delivered[b] :
    i < j /\ delivered[b][i].ssrc = delivered[b][j].ssrc
      => delivered[b][i].seq < delivered[b][j].seq

\* C5 as claimed: once A's readPump has run its teardown, no packet of A is
\* written to an outbound track again.
C5_Original ==
  [][\A a, b \in Users :
       rp[a] = "done" /\ delivered'[b] # delivered[b]
         => Publisher(delivered'[b][Len(delivered'[b])]) # a]_vars

\* C6 as claimed: after a failed read the participant ends stopped, out of
\* its room, with its signaling channel closed and its media session closed
\* (here: once its reader and writer have ended and no handler of it runs).
C6_Original ==
  \A u \in Users :
    rp[u] = "done" /\ wp[u] = "done" /\ (\A t \in handlers : t.user # u)
      => /\ stop[u]
         /\ u \notin members[room[u]]
         /\ conn[u] = "closed"
         /\ iceState[u] = "closed"

\* C7 as claimed: after the callback was given disconnected, failed or
\* closed, the participant is stopped and out of its room.
C7_Original ==
  \A u \in Users :
    iceState[u] \in {"disconnected", "failed", "closed"}
      => stop[u] /\ u \notin members[room[u]]

\* C8 as claimed: a failure of one participant ends at most that
\* participant: the process stays alive.
C8_Original == alive

\* C9 as claimed: no error of a media-session operation is dropped, and no
\* empty offer or answer is enqueued in place of an error.
C9_Original ==
  /\ ignoredErr = {}
  /\ \A u \in Users : \A i \in DOMAIN send[u] : send[u][i].ok

\* An offer without a codec named OPUS.
LacksOpus(msg) ==
  /\ msg.type = "offer" /\ msg.present
  /\ \A i \in DOMAIN msg.codecs : msg.codecs[i].name # "OPUS"

\* The state of participant u an offer could alter.
Participant(u) ==
  <<outTracks[u], pcTracks[u], transceivers[u], sigState[u], hasRemote[u],
    inTrack[u], stop[u], conn[u], room[u]>>

\* C10: the handler of an offer without Opus takes one step, which enqueues
\* the one error "remote peer does not support opus codec" and ends the
\* handler, and which leaves the participant's tracks, transceivers, session
\* descriptions, room membership and stop flag as they were.
C10_CodecMismatch ==
  [][\A t \in handlers :
       LacksOpus(t.msg) /\ t \notin handlers'
         => /\ \A t2 \in handlers' : t2.id # t.id
            /\ send' = [send EXCEPT ![t.user] = Append(@, ErrMsg(ErrOpus))]
            /\ Participant(t.user)' = Participant(t.user)
            /\ members' = members]_vars

\* C10's case: the error of a rejected offer is in the queue of a participant
\* that is in its room and not stopped.
C10_Witness ==
  \E u \in Users :
    /\ \E i \in DOMAIN send[u] : send[u][i] = ErrMsg(ErrOpus)
    /\ u \in members[room[u]]
    /\ ~stop[u]

\* A message that is no well-formed offer, answer or candidate: a frame that
\* is no Event, an unknown type, or a known type without its payload.
ProtocolMsg(msg) ==
  \/ msg.type \notin {"offer", "answer", "candidate"}
  \/ ~msg.present

\* C11 as claimed: the handler of a malformed message, of an offer, answer or
\* candidate without its payload, or of a message of unknown type ends in one
\* step that enqueues exactly one error event to the participant ("not
\* implemented" for an unknown type), with the process running, and leaves
\* the participant's media session, room membership and stop flag as they
\* were.
C11_Original ==
  [][\A t \in handlers :
       ProtocolMsg(t.msg) /\ t \notin handlers'
         => /\ alive'
            /\ \A t2 \in handlers' : t2.id # t.id
            /\ Len(send'[t.user]) = Len(send[t.user]) + 1
            /\ LET m == send'[t.user][Len(send'[t.user])] IN
                 /\ m.type = "error"
                 /\ t.msg.type = "hangup" => m.desc = "not implemented"
                 /\ send' = [send EXCEPT ![t.user] = Append(@, m)]
            /\ Participant(t.user)' = Participant(t.user)
            /\ members' = members]_vars

\* Participant u was created before participant v.
CreatedBefore(u, v) ==
  \E i, j \in DOMAIN created : i < j /\ created[i] = u /\ created[j] = v

\* C12 as claimed: no two participants have the same identifier, and a
\* participant created later has the larger identifier.
C12_Original ==
  \A u, v \in Users :
    CreatedBefore(u, v) => ID[u] < ID[v]

\* C13 as claimed: a snapshot of a room's other participants, taken by an
\* OnTrack callback or by a forwarder for a packet, holds no participant
\* whose stop flag was set before the snapshot was taken.
C13_Original ==
  [][/\ \A t \in ot : \A t2 \in ot' :
          t.pc = "snap" /\ t2.pc # "snap"
            /\ t2.user = t.user /\ t2.ssrc = t.ssrc
            => \A v \in t2.snap : ~stop[v]
     /\ \A u \in Users :
          Len(rtpCh'[u]) < Len(rtpCh[u])
            => \A f \in fwdBusy' \ fwdBusy : \A v \in f.todo : ~stop[v]]_vars

\* C14 as claimed: the local tracks attached to a participant's media session
\* are as many as the entries of its outTracks.
C14_Original ==
  \A u \in Users : pcTracks[u] = Cardinality(outTracks[u])

\* The forwarders of u: those waiting for a packet and those in a fan-out.
Forwarders(u) ==
  fwdIdle[u] + Cardinality({ f \in fwdBusy : f.user = u })

\* C15: every forwarder an OnTrack callback started is still running; and a
\* forwarder's call of WriteRTP on a subscriber v of its snapshot writes the
\* packet to v or drops it for v (it drops it when v has no outbound track
\* under the packet's SSRC), changes what no other participant received, and
\* leaves the forwarder with the rest of the snapshot still to write to, or,
\* after the last subscriber, waiting for the next packet.
C15_PerSubscriberDrop ==
  /\ [](\A u \in Users :
         Forwarders(u) = Cardinality({ rec \in otDone : rec.user = u }))
  /\ [][\A f \in fwdBusy :
          f \notin fwdBusy'
            => \E v \in f.todo :
                 /\ delivered' \in
                      {delivered, [delivered EXCEPT ![v] = Append(@, f.pkt)]}
                 /\ f.pkt.ssrc \notin outTracks[v] => delivered' = delivered
                 /\ IF f.todo = {v}
                      THEN /\ fwdBusy' = fwdBusy \ {f}
                           /\ fwdIdle' = [fwdIdle EXCEPT ![f.user] = @ + 1]
                      ELSE /\ fwdBusy' = (fwdBusy \ {f}) \cup
                                           {[f EXCEPT !.todo = @ \ {v}]}
                           /\ fwdIdle' = fwdIdle]_vars

\* C15's case: a forwarder's snapshot holds two subscribers; the packet was
\* dropped for one, which has no outbound track under the packet's SSRC, and
\* the forwarder still has the other, which has one, to write to.
C15_Witness ==
  \E f \in fwdBusy : \E b \in f.snap \ f.todo : \E c \in f.todo :
    /\ f.pkt.ssrc \notin outTracks[b]
    /\ f.pkt.ssrc \in outTracks[c]

\* C16 as claimed: the tasks of a participant that was torn down end.  Once
\* its readPump has run its teardown, its OnTrack callbacks and inbound
\* readers have ended and its packet queue is empty with no fan-out under
\* way, so that nothing is left for a forwarder to do, no forwarder of it is
\* left waiting on the queue.
C16_Original ==
  \A u \in Users :
    /\ rp[u] = "done"
    /\ \A t \in ot : t.user # u
    /\ \A rd \in readers : rd.user # u
    /\ rtpCh[u] = << >>
    /\ \A f \in fwdBusy : f.user # u
    => fwdIdle[u] = 0

\* What a handler of a signaling message can alter of participant u: its
\* media session, its outbound tracks and its send queue.
Signaled(u) ==
  <<sigState[u], hasRemote[u], transceivers[u], pcTracks[u], outTracks[u],
    send[u]>>

\* C17 as claimed: a stop flag that is set stays set, and no step of a
\* handler of a stopped participant's message applies a description, adds a
\* track or a transceiver, or enqueues a message for it.
C17_Original ==
  [][\A u \in Users :
       stop[u]
         => /\ stop'[u]
            /\ (\E t \in handlers \ handlers' : t.user = u)
                 => Signaled(u)' = Signaled(u)]_vars

\* The inbound tracks of the other members of u's room.
OthersTracks(u) ==
  { inTrack[v] : v \in { w \in GetOtherUsers(room[u], u) :
                            inTrack[w] # NilTrack } }

\* C18: the first step of the handler of an offer of Q takes up the inbound
\* track of every other member of Q's room that has one; a handler that has
\* come to apply the remote description, to create the answer or to enqueue
\* it has added an outbound track to Q for each track it took up, and a
\* handler in its loop for each it is through with.
C18_ProvisionBeforeAnswer ==
  /\ [](\A t \in handlers :
         /\ t.pc \in {"remote", "answer", "sendanswer"}
              => t.tracks \subseteq outTracks[t.user]
         /\ t.pc = "add" => (t.tracks \ t.todo) \subseteq outTracks[t.user])
  /\ [][\A t \in handlers : \A t2 \in handlers' :
          /\ t.pc = "start" /\ t.msg.type = "offer"
          /\ t2.id = t.id /\ t2.pc # "start"
          => /\ OthersTracks(t.user) \subseteq t2.tracks
             /\ t2.pc = "remote" => t2.tracks = {}
             /\ t2.pc = "add" => t2.todo = t2.tracks]_vars

\* C18's case: a handler is about to enqueue the answer to an offer of Q
\* after it added to Q an outbound track for the track of another
\* participant.
C18_Witness ==
  \E t \in handlers : \E k \in t.tracks :
    /\ t.pc = "sendanswer"
    /\ trackOf[k] # t.user
    /\ k \in outTracks[t.user]

\* C19: readPump reads the next message whatever the handlers of the earlier
\* messages are doing, and the handler of a candidate runs whatever the
\* handlers of the earlier messages are doing.
C19_ReaderNeverWaits ==
  /\ \A u \in Users : \A m \in OrderMsgs :
       alive /\ rp[u] = "read" /\ conn[u] = "open" /\ nMsgs < MaxMsgs
         => ENABLED readPumpRead(u, m)
  /\ \A t \in handlers :
       alive /\ t.pc = "start" /\ t.msg.type = "candidate" /\ t.msg.present
         => ENABLED HandleCandidate(t)

\* C19's case: the media session took a candidate that the participant sent
\* after an offer whose handler has not yet applied the offer as the remote
\* description.
C19_Witness ==
  \E t \in handlers : \E c \in candidates[t.user] :
    /\ t.msg.type = "offer"
    /\ t.pc \in {"start", "add", "remote"}
    /\ c.id > t.id
    /\ c.ok

\* A handler is in the middle of a client offer of q: past its first step,
\* with the answer not enqueued yet.
OfferInHand(q) ==
  \E h \in handlers :
    h.user = q /\ h.pc \in {"add", "remote", "answer", "sendanswer"}

\* C20 as claimed: an OnTrack callback creates an offer on the session of q
\* only when the session is stable, with no server offer unanswered and no
\* client offer of q in a handler's hands; and a client offer is applied as
\* q's remote description only when no server offer to q is unanswered.
C20_Original ==
  [][/\ \A t \in ot : \A t2 \in ot' :
          /\ t.pc = "offer" /\ t2.pc = "send" /\ t2.ok
          /\ t2.user = t.user /\ t2.ssrc = t.ssrc
          => sigState[t.cur] = "stable" /\ ~OfferInHand(t.cur)
     /\ \A h \in handlers : \A h2 \in handlers' :
          h.pc = "remote" /\ h2.pc = "answer" /\ h2.id = h.id
          => sigState[h.user] # "have-local-offer"]_vars

\* C21 as claimed: an OnTrack callback is never left for good in SendOffer's
\* send on a peer's queue: when it is at that send, the queue has room or
\* the peer's writePump still runs and will take a message from it.
C21_Original ==
  \A t \in ot :
    t.pc = "send" => CanSend(t.cur) \/ wp[t.cur] = "run"

====
